---- MODULE Spec2Model ----
(***************************************************************************)
(* Model of the instrument communication pipeline of the LIS analyzer      *)
(* agent: the ASTM low-level protocol engine (AstmProtocolHandler) driven  *)
(* byte by byte by an instrument, and the durable delivery queue           *)
(* (QueueManager) with its drain loop, its file and its restart.           *)
(***************************************************************************)
EXTENDS Integers, Sequences, FiniteSets, TLC

(***************************************************************************)
(* Protocol control characters (AstmProtocolHandler constructor).          *)
(***************************************************************************)
ENQ == 5
ACK == 6
NAK == 21
STX == 2
ETX == 3
ETB == 23
CR == 13
LF == 10
EOT == 4

\* "no value": JavaScript null (currentFrameNumber) / no response byte
NULL == -1

(***************************************************************************)
(* Bounds of the model and the inputs an instrument is let to send.        *)
(***************************************************************************)
\* frames per transmission
MaxFrames == 2
\* payloads a frame may carry: ordinary data bytes ('A' = 65, 'B' = 66)
Payloads == {<< >>, <<65>>, <<65, 66>>}
\* frame-number digits an instrument may send: '1', '2', '3'
FrameDigits == {49, 50, 51}
\* the frame terminators
Terminators == {ETX, ETB}
\* how an instrument may compute the two checksum digits of a frame
CsPolicies == {"streaming", "plusCR", "plusNumCR", "off"}

\* config.queue.maxSize of the modelled configuration
MaxSize == 2
\* config.retry.maxRetries of the modelled configuration
MaxRetries == 2
\* add() calls in a run
MaxAdds == 3
\* clock ticks in a run
MaxClock == 1
\* restarts of the process in a run
MaxCrashes == 1
\* the outcomes of a deliver call: true, false, a thrown fault
Outcomes == {"ok", "fail", "throw"}

VARIABLES
  h,          \* the AstmProtocolHandler instance (its fields)
  sent,       \* bytes the instrument has sent so far, in order
  resps,      \* resps[i]: the response byte to sent[i], NULL when none
  events,     \* events emitted so far: [type, text, at]
  phase,      \* where the instrument is in its transmission
  frames,     \* frames completely sent so far: [num, payload, term]
  cur,        \* the frame being sent: [num, payload]
  csq,        \* checksum digits still to be sent for the current frame
  queue,      \* QueueManager.queue: the in-memory list of items
  file,       \* the content of the persisted queue file
  isProcessing,     \* QueueManager.isProcessing: the drain guard
  processInterval,  \* QueueManager.processInterval: the drain timer is set
  pc,         \* where the drain loop of process() is suspended
  item,       \* the local variable item of process()
  now,        \* the clock read by Date.now()
  nextRef,    \* number of the next item object created by add()
  calls,      \* calls[r]: deliver calls made with item r's payload
  fails,      \* fails[r]: deliver calls for item r that failed
  fate,       \* fate[r]: where item r is, or how it left the queue
  crashes,    \* restarts of the process so far
  drains,     \* drain loops of process() in flight
  meter,      \* deliver calls and allowance of the drain in flight (ghost)
  isOpen,     \* ComReader.port.isOpen: the serial port is open
  socket,     \* TcpReader.socket: the peer of the socket last accepted
  conns,      \* TCP peers whose accepted socket is open
  ppos,       \* ppos[p]: chunks peer p has sent so far
  writes,     \* writes[p]: response bytes written to the socket of peer p
  raw,        \* the message text handed to MessageParser.parse
  parsed      \* what parse(raw) returned, NotParsed before the call

engineVars == <<h, sent, resps, events, phase, frames, cur, csq>>

queueVars == <<queue, file, isProcessing, processInterval, pc, item, now,
               nextRef, calls, fails, fate, crashes, drains, meter>>

tcpVars == <<socket, conns, ppos, writes>>

\* what a step of the engine, and a step of the queue, leaves alone
parserVars == <<raw, parsed>>

notEngine == <<queueVars, isOpen, tcpVars, parserVars>>
notQueue == <<engineVars, isOpen, tcpVars, parserVars>>

vars == <<engineVars, queueVars, isOpen, tcpVars, parserVars>>

----------------------------------------------------------------------------
(***************************************************************************)
(* Pure helpers: character classes, hexadecimal rendering, text decoding.  *)
(***************************************************************************)

\* /^[0-7]$/ on the character of a byte
IsFrameDigit(b) == b >= 48 /\ b <= 55

\* /^[0-9A-Fa-f]$/ on the character of a byte
IsHexChar(b) ==
  \/ (b >= 48 /\ b <= 57)
  \/ (b >= 65 /\ b <= 70)
  \/ (b >= 97 /\ b <= 102)

\* String.prototype.toUpperCase on one ASCII character
ToUpperCase(b) == IF b >= 97 /\ b <= 122 THEN b - 32 ELSE b

\* parseInt(char, 10) of a digit character
ParseDigit(b) == b - 48

\* one hexadecimal digit of Number.prototype.toString(16).toUpperCase()
HexChar(n) == IF n < 10 THEN 48 + n ELSE 55 + n

\* n.toString(16).toUpperCase().padStart(2, '0') for n in 0..255
Hex2(n) == <<HexChar(n \div 16), HexChar(n % 16)>>

\* Buffer.prototype.toString(): UTF-8 decoding; an ASCII byte is its own
\* character, a lone byte above 127 decodes to U+FFFD
BufferToString(buf) ==
  [i \in 1..Len(buf) |-> IF buf[i] < 128 THEN buf[i] ELSE 65533]

RECURSIVE SumBytes(_)
SumBytes(s) == IF s = << >> THEN 0 ELSE s[1] + SumBytes(Tail(s))

----------------------------------------------------------------------------
(***************************************************************************)
(* AstmProtocolHandler.  A handler maps the instance to                    *)
(*   [st |-> instance after, resp |-> response byte or NULL,               *)
(*    emit |-> the events emitted, in order].                              *)
(***************************************************************************)

Out(s, r, e) == [st |-> s, resp |-> r, emit |-> e]

NewHandler ==
  [ nextExpectedFrameNumber |-> 1,
    currentFrameNumber |-> NULL,
    messageBuffer |-> << >>,
    isReceivingMessage |-> FALSE,
    checksum |-> 0,
    receivedChecksum |-> << >>,
    expectingChecksum |-> FALSE,
    timeoutTimer |-> FALSE ]

resetTimeout(s) == [s EXCEPT !.timeoutTimer = FALSE]

startTimeout(s) == [resetTimeout(s) EXCEPT !.timeoutTimer = TRUE]

\* resetState without the line that empties messageBuffer
resetState_KeepBuffer(s) ==
  resetTimeout([s EXCEPT !.checksum = 0,
                         !.receivedChecksum = << >>,
                         !.expectingChecksum = FALSE,
                         !.isReceivingMessage = FALSE,
                         !.currentFrameNumber = NULL,
                         !.nextExpectedFrameNumber = 1])

resetState(s) ==
  resetTimeout([s EXCEPT !.messageBuffer = << >>,
                         !.checksum = 0,
                         !.receivedChecksum = << >>,
                         !.expectingChecksum = FALSE,
                         !.isReceivingMessage = FALSE,
                         !.currentFrameNumber = NULL,
                         !.nextExpectedFrameNumber = 1])

validateChecksum(s) == Hex2(s.checksum) = s.receivedChecksum

\* handleENQ without its resetState() call
handleENQ_NoReset(s) ==
  Out(startTimeout([s EXCEPT !.isReceivingMessage = TRUE,
                             !.nextExpectedFrameNumber = 1]),
      ACK, << >>)

handleENQ(s) ==
  Out(startTimeout([resetState(s) EXCEPT !.isReceivingMessage = TRUE,
                                         !.nextExpectedFrameNumber = 1]),
      ACK, << >>)

\* handleSTX answering the STX with ACK
handleSTX_Ack(s) ==
  Out([s EXCEPT !.checksum = 0,
                !.currentFrameNumber = NULL,
                !.expectingChecksum = FALSE,
                !.receivedChecksum = << >>],
      ACK, << >>)

handleSTX(s) ==
  Out([s EXCEPT !.checksum = 0,
                !.currentFrameNumber = NULL,
                !.expectingChecksum = FALSE,
                !.receivedChecksum = << >>],
      NULL, << >>)

handleETX(s) ==
  Out([s EXCEPT !.checksum = (s.checksum + ETX) % 256,
                !.expectingChecksum = TRUE],
      NULL, << >>)

handleETB(s) ==
  Out([s EXCEPT !.checksum = (s.checksum + ETB) % 256,
                !.expectingChecksum = TRUE],
      NULL, << >>)

\* handleCR adding the CR to the checksum only where it is data
handleCR_DataOnly(s) ==
  Out(IF ~s.expectingChecksum
        THEN [s EXCEPT !.checksum = (s.checksum + CR) % 256,
                       !.messageBuffer = Append(s.messageBuffer, CR)]
        ELSE s,
      NULL, << >>)

handleCR(s) ==
  LET s1 == [s EXCEPT !.checksum = (s.checksum + CR) % 256]
  IN  Out(IF ~s.expectingChecksum
            THEN [s1 EXCEPT !.messageBuffer = Append(s.messageBuffer, CR)]
            ELSE s1,
          NULL, << >>)

\* messageBuffer.includes(Buffer.from([ETX]))
BufferIncludes(buf, b) == \E i \in 1..Len(buf) : buf[i] = b

handleLF(s) ==
  LET s0 == resetTimeout(s)
  IN  IF s0.expectingChecksum /\ Len(s0.receivedChecksum) = 2
        THEN IF ~validateChecksum(s0)
               THEN Out(resetState(s0), NAK, << >>)
               ELSE LET n  == s0.nextExpectedFrameNumber + 1
                        s1 == IF BufferIncludes(s0.messageBuffer, ETX)
                                THEN s0
                                ELSE [s0 EXCEPT !.nextExpectedFrameNumber =
                                                  IF n > 7 THEN 0 ELSE n]
                    IN  Out([s1 EXCEPT !.expectingChecksum = FALSE], ACK, << >>)
        ELSE Out([s0 EXCEPT !.expectingChecksum = FALSE], ACK, << >>)

\* handleEOT without the resetState() call that follows the emit
handleEOT_NoReset(s) ==
  LET s0 == resetTimeout(s)
  IN  IF s0.expectingChecksum /\ Len(s0.receivedChecksum) = 2
         /\ ~validateChecksum(s0)
        THEN Out(resetState(s0), NAK, << >>)
        ELSE Out(s0, ACK,
                 << [type |-> "message", text |-> BufferToString(s0.messageBuffer)] >>)

handleEOT(s) ==
  LET s0 == resetTimeout(s)
  IN  IF s0.expectingChecksum /\ Len(s0.receivedChecksum) = 2
         /\ ~validateChecksum(s0)
        THEN Out(resetState(s0), NAK, << >>)
        ELSE Out(resetState(s0), ACK,
                 << [type |-> "message", text |-> BufferToString(s0.messageBuffer)] >>)

handleDataByte(s, b) ==
  IF s.currentFrameNumber = NULL /\ Len(s.messageBuffer) = 0 /\ IsFrameDigit(b)
    THEN \* the frame number, expected or not: kept out of checksum and text
         Out([s EXCEPT !.currentFrameNumber = ParseDigit(b)], NULL, << >>)
    ELSE IF s.expectingChecksum
      THEN IF IsHexChar(b)
             THEN Out([s EXCEPT !.receivedChecksum =
                                  Append(s.receivedChecksum, ToUpperCase(b))],
                      NULL, << >>)
             ELSE Out([s EXCEPT !.expectingChecksum = FALSE], NULL, << >>)
      ELSE Out([s EXCEPT !.checksum = (s.checksum + b) % 256,
                         !.messageBuffer = Append(s.messageBuffer, b),
                         !.currentFrameNumber = NULL],
               NULL, << >>)

processByte(s, b) ==
  LET s0 == resetTimeout(s)
  IN  CASE b = ENQ -> handleENQ(s0)
        [] b = STX -> handleSTX(s0)
        [] b = ETX -> handleETX(s0)
        [] b = ETB -> handleETB(s0)
        [] b = CR  -> handleCR(s0)
        [] b = LF  -> handleLF(s0)
        [] b = EOT -> handleEOT(s0)
        [] OTHER   -> handleDataByte(s0, b)

\* handleTimeout with the alarm cleared but without resetState()
handleTimeout_KeepState(s) ==
  Out(resetTimeout(s), NULL,
      << [type |-> "timeout", text |-> BufferToString(s.messageBuffer)] >>)

handleTimeout(s) ==
  Out(resetState(s), NULL,
      << [type |-> "timeout", text |-> BufferToString(s.messageBuffer)] >>)

----------------------------------------------------------------------------
(***************************************************************************)
(* The instrument: it sends a transmission ENQ, frames, EOT one byte at a  *)
(* time; every byte goes through processByte and the response is recorded. *)
(***************************************************************************)

\* the streaming-mode checksum of a frame: payload bytes plus terminator
Streaming(p, t) == (SumBytes(p) + t) % 256

\* the value an instrument puts in the checksum digits under a policy
CsValue(policy, num, p, t) ==
  CASE policy = "streaming" -> Streaming(p, t)
    [] policy = "plusCR"    -> (Streaming(p, t) + CR) % 256
    [] policy = "plusNumCR" -> (Streaming(p, t) + num + CR) % 256
    [] OTHER                -> (Streaming(p, t) + 1) % 256

IsPrefix(a, b) == Len(a) <= Len(b) /\ \A i \in 1..Len(a) : a[i] = b[i]

Stamp(emit, at) ==
  [i \in 1..Len(emit) |-> [type |-> emit[i].type, text |-> emit[i].text, at |-> at]]

\* the transport hands one byte to processByte and records what comes back
Feed(b) ==
  LET o == processByte(h, b)
  IN  /\ isOpen
      /\ h' = o.st
      /\ sent' = Append(sent, b)
      /\ resps' = Append(resps, o.resp)
      /\ events' = events \o Stamp(o.emit, Len(sent) + 1)
      /\ UNCHANGED notEngine

\* the listeners ComReader puts on the engine: a completed message is
\* always emitted as 'data' to the parser stage, the text of a timeout
\* only when it is not empty
forwards(e) ==
  IF e.type = "message" THEN TRUE ELSE Len(e.text) > 0

EngineInit ==
  /\ h = NewHandler
  /\ isOpen = TRUE
  /\ sent = << >>
  /\ resps = << >>
  /\ events = << >>
  /\ phase = "idle"
  /\ frames = << >>
  /\ cur = [num |-> NULL, payload |-> << >>]
  /\ csq = << >>

SendENQ ==
  /\ phase = "idle"
  /\ Feed(ENQ)
  /\ phase' = "enq"
  /\ UNCHANGED <<frames, cur, csq>>

SendSTX ==
  /\ phase \in {"enq", "lf"}
  /\ Len(frames) < MaxFrames
  /\ Feed(STX)
  /\ phase' = "stx"
  /\ cur' = [num |-> NULL, payload |-> << >>]
  /\ UNCHANGED <<frames, csq>>

SendNum ==
  /\ phase = "stx"
  /\ \E d \in FrameDigits :
       /\ Feed(d)
       /\ cur' = [cur EXCEPT !.num = d]
  /\ phase' = "data"
  /\ UNCHANGED <<frames, csq>>

SendData ==
  /\ phase = "data"
  /\ \E p \in Payloads :
       /\ Len(p) > Len(cur.payload)
       /\ IsPrefix(cur.payload, p)
       /\ Feed(p[Len(cur.payload) + 1])
       /\ cur' = [cur EXCEPT !.payload = Append(cur.payload, p[Len(cur.payload) + 1])]
  /\ UNCHANGED <<phase, frames, csq>>

SendEnd ==
  /\ phase = "data"
  /\ cur.payload \in Payloads
  /\ \E t \in Terminators, policy \in CsPolicies :
       /\ Feed(t)
       /\ frames' = Append(frames, [num |-> cur.num, payload |-> cur.payload, term |-> t])
       /\ csq' = Hex2(CsValue(policy, cur.num, cur.payload, t))
  /\ phase' = "cs"
  /\ UNCHANGED cur

SendCs ==
  /\ phase = "cs"
  /\ csq # << >>
  /\ Feed(Head(csq))
  /\ csq' = Tail(csq)
  /\ UNCHANGED <<phase, frames, cur>>

SendCR ==
  /\ phase = "cs"
  /\ csq = << >>
  /\ Feed(CR)
  /\ phase' = "cr"
  /\ UNCHANGED <<frames, cur, csq>>

SendLF ==
  /\ phase = "cr"
  /\ Feed(LF)
  /\ phase' = "lf"
  /\ UNCHANGED <<frames, cur, csq>>

SendEOT ==
  /\ phase = "lf"
  /\ Feed(EOT)
  /\ phase' = "eot"
  /\ UNCHANGED <<frames, cur, csq>>

\* a character that is no hex digit: 'G'
NonHex == 71

\* the instrument sends a character that is no hex digit in the place of
\* the next checksum digit
SendBadCs ==
  /\ phase = "cs"
  /\ csq # << >>
  /\ Feed(NonHex)
  /\ csq' = Tail(csq)
  /\ UNCHANGED <<phase, frames, cur>>

\* the inactivity alarm fires (the setTimeout callback of startTimeout)
Timeout ==
  /\ h.timeoutTimer
  /\ LET o == handleTimeout(h)
     IN  /\ h' = o.st
         /\ events' = events \o Stamp(o.emit, Len(sent))
  /\ UNCHANGED <<sent, resps, phase, frames, cur, csq>>
  /\ UNCHANGED notEngine

\* bytes of a line that follows no protocol: control characters and the
\* digits '0' and '3' (STX, ETX, '0', '3', LF is a frame that validates)
Alphabet == {ENQ, STX, ETX, CR, LF, EOT, 48, 51}

\* bytes a line that follows no protocol delivers
MaxBytes == 6

\* any byte arrives, whatever the engine is doing
SendByte ==
  /\ Len(sent) < MaxBytes
  /\ \E b \in Alphabet : Feed(b)
  /\ UNCHANGED <<phase, frames, cur, csq>>

BytesNext ==
  \/ SendByte
  \/ Timeout

EngineNext ==
  \/ SendENQ
  \/ SendSTX
  \/ SendNum
  \/ SendData
  \/ SendEnd
  \/ SendCs
  \/ SendCR
  \/ SendLF
  \/ SendEOT
  \/ Timeout

----------------------------------------------------------------------------
(***************************************************************************)
(* QueueManager.  An item is [ref, id, attempts, data]: ref numbers the    *)
(* item objects in creation order (object identity), id is Date.now(),     *)
(* data is the payload, opaque to the queue: the n-th add() hands over     *)
(* payload n.                                                              *)
(***************************************************************************)

Refs == 1..MaxAdds

NoItem == [ref |-> 0, id |-> 0, attempts |-> 0, data |-> 0]

QueueRefs(q) == {q[i].ref : i \in 1..Len(q)}

\* Array.prototype.shift: drops the front element, nothing on an empty list
Shift(q) == IF q = << >> THEN q ELSE Tail(q)

\* item.attempts++ on the object held by process(): the queue entry that is
\* the same object sees the increment
Increment(q, it) ==
  [i \in 1..Len(q) |-> IF q[i].ref = it.ref
                         THEN [q[i] EXCEPT !.attempts = it.attempts + 1]
                         ELSE q[i]]

\* add() with unshift in place of push: the new item goes to the front
add_AtFront(q, it) ==
  IF Len(q) >= MaxSize THEN <<it>> \o Shift(q) ELSE <<it>> \o q

\* add() with the overflow test off by one
add_OffByOne(q, it) ==
  IF Len(q) > MaxSize THEN Append(Shift(q), it) ELSE Append(q, it)

\* add(): the list after the overflow check and the push
add(q, it) ==
  IF Len(q) >= MaxSize THEN Append(Shift(q), it) ELSE Append(q, it)

\* the retry ceiling tested with > in place of >=
exceeded_Strict(attempts) == attempts > MaxRetries

\* item.attempts >= this.config.retry.maxRetries
exceeded(attempts) == attempts >= MaxRetries

\* the failure branch without item.attempts++ and without the ceiling test
afterSend_NoCount(q, it, r) ==
  IF r = "ok" THEN Shift(q) ELSE Append(Shift(q), it)

\* the failure branch without the shift and the push: the item that failed
\* stays at the front
afterSend_RetryInPlace(q, it, r) ==
  IF r = "ok"
    THEN Shift(q)
    ELSE LET q1  == Increment(q, it)
             it1 == [it EXCEPT !.attempts = it.attempts + 1]
         IN  IF exceeded(it1.attempts) THEN Shift(q1) ELSE q1

\* the list after a deliver call for `it` came back with outcome r
afterSend(q, it, r) ==
  IF r = "ok"
    THEN Shift(q)
    ELSE LET q1  == Increment(q, it)
             it1 == [it EXCEPT !.attempts = it.attempts + 1]
         IN  IF exceeded(it1.attempts)
               THEN Shift(q1)
               ELSE Append(Shift(q1), it1)

\* saveQueue(): the file is rewritten with the whole list
saveQueue(q) == q

\* loadQueue(): the list parsed from the file
loadQueue(f) == f

\* where the items are after the list went from q to q2 while `it` was handled
\* with outcome r ("" for add): ghost bookkeeping of the model
Fate(f, q, q2, it, r) ==
  [x \in Refs |->
     IF x \in QueueRefs(q2) THEN "queued"
     ELSE IF x \notin QueueRefs(q) THEN
            IF x = it.ref /\ r = "ok" THEN "delivered"
            ELSE IF x = it.ref /\ r \in {"fail", "throw"} THEN "dead"
            ELSE f[x]
     ELSE IF r = "" THEN "dropped"
     ELSE IF x = it.ref THEN (IF r = "ok" THEN "delivered" ELSE "dead")
     ELSE "shifted"]

\* the deliver calls the items of q can still get: the sum over the items
\* of maxRetries minus attempts
RECURSIVE Owed(_)
Owed(q) ==
  IF q = << >> THEN 0 ELSE (MaxRetries - Head(q).attempts) + Owed(Tail(q))

\* the meter of a run whose drains are not metered, and the meter of a
\* metered run while no drain is in flight: ghost bookkeeping of the model
Unmetered == [on |-> FALSE, spent |-> 0, owed |-> 0, added |-> 0]
NoMeter == [on |-> TRUE, spent |-> 0, owed |-> 0, added |-> 0]

\* the meter when a drain starts on the list q with its first deliver call,
\* after one more deliver call, after an add(), and at the end of the drain
meterStart(m, q) ==
  IF m.on THEN [on |-> TRUE, spent |-> 1, owed |-> Owed(q), added |-> 0] ELSE m
meterCall(m) == IF m.on THEN [m EXCEPT !.spent = @ + 1] ELSE m
meterAdd(m, flag) == IF m.on /\ flag THEN [m EXCEPT !.added = @ + 1] ELSE m
meterEnd(m) == IF m.on THEN NoMeter ELSE m

QueueInit ==
  /\ queue = << >>
  /\ file = << >>
  /\ isProcessing = FALSE
  /\ processInterval = FALSE
  /\ pc = "idle"
  /\ item = NoItem
  /\ now = 0
  /\ nextRef = 1
  /\ calls = [x \in Refs |-> 0]
  /\ fails = [x \in Refs |-> 0]
  /\ fate = [x \in Refs |-> "none"]
  /\ crashes = 0
  /\ drains = 0
  /\ meter = Unmetered

\* the clock advances
Tick ==
  /\ now < MaxClock
  /\ now' = now + 1
  /\ UNCHANGED <<queue, file, isProcessing, processInterval, pc, item,
                 nextRef, calls, fails, fate, crashes, drains, meter>>
  /\ UNCHANGED notQueue

\* add(item)
Add ==
  /\ nextRef <= MaxAdds
  /\ LET it == [ref |-> nextRef, id |-> now, attempts |-> 0, data |-> nextRef]
     IN  /\ queue' = add(queue, it)
         /\ fate' = Fate(fate, queue, queue', NoItem, "")
  /\ file' = saveQueue(queue')
  /\ nextRef' = nextRef + 1
  /\ meter' = meterAdd(meter, isProcessing)
  /\ UNCHANGED <<isProcessing, processInterval, pc, item, now, calls, fails,
                 crashes, drains>>
  /\ UNCHANGED notQueue

\* start(sendFn)
Start ==
  /\ ~processInterval
  /\ processInterval' = TRUE
  /\ UNCHANGED <<queue, file, isProcessing, pc, item, now, nextRef, calls,
                 fails, fate, crashes, drains, meter>>
  /\ UNCHANGED notQueue

\* the entry test of process() without the guard flag
returnsAtOnce_NoFlag(flag, q) == Len(q) = 0

\* if (this.isProcessing || this.queue.length === 0) return
returnsAtOnce(flag, q) == flag \/ Len(q) = 0

\* process() is entered, by the interval timer or by LISAgent.processQueue,
\* and runs up to its first deliver call
Process ==
  /\ processInterval
  /\ IF returnsAtOnce(isProcessing, queue)
       THEN UNCHANGED <<isProcessing, pc, item, calls, drains, meter>>
       ELSE /\ isProcessing' = TRUE
            /\ drains' = drains + 1
            /\ meter' = meterStart(meter, queue)
            /\ item' = queue[1]
            /\ calls' = [calls EXCEPT ![queue[1].ref] = @ + 1]
            /\ pc' = "send"
  /\ UNCHANGED <<queue, file, processInterval, now, nextRef, fails, fate,
                 crashes>>
  /\ UNCHANGED notQueue

\* the awaited deliver call comes back; the loop body runs up to the delay
SendReturns ==
  /\ pc = "send"
  /\ \E r \in Outcomes :
       /\ queue' = afterSend(queue, item, r)
       /\ fate' = Fate(fate, queue, queue', item, r)
       /\ fails' = IF r = "ok" THEN fails ELSE [fails EXCEPT ![item.ref] = @ + 1]
  /\ pc' = "delay"
  /\ UNCHANGED <<file, isProcessing, processInterval, item, now, nextRef,
                 calls, crashes, drains, meter>>
  /\ UNCHANGED notQueue

\* the delay between items is over: the loop test, then the next deliver
\* call or the end of the drain
DelayDone ==
  /\ pc = "delay"
  /\ IF Len(queue) > 0
       THEN /\ item' = queue[1]
            /\ calls' = [calls EXCEPT ![queue[1].ref] = @ + 1]
            /\ pc' = "send"
            /\ meter' = meterCall(meter)
            /\ UNCHANGED <<file, isProcessing, drains>>
       ELSE /\ file' = IF Len(queue) > 0 THEN saveQueue(queue) ELSE file
            /\ isProcessing' = FALSE
            /\ drains' = drains - 1
            /\ meter' = meterEnd(meter)
            /\ pc' = "idle"
            /\ UNCHANGED <<item, calls>>
  /\ UNCHANGED <<queue, processInterval, now, nextRef, fails, fate, crashes>>
  /\ UNCHANGED notQueue

\* stop() without its saveQueue() call
Stop_NoSave ==
  /\ processInterval
  /\ processInterval' = FALSE
  /\ UNCHANGED <<queue, file, isProcessing, pc, item, now, nextRef, calls,
                 fails, fate, crashes, drains, meter>>
  /\ UNCHANGED notQueue

\* stop()
Stop ==
  /\ processInterval
  /\ processInterval' = FALSE
  /\ file' = saveQueue(queue)
  /\ UNCHANGED <<queue, isProcessing, pc, item, now, nextRef, calls, fails,
                 fate, crashes, drains, meter>>
  /\ UNCHANGED notQueue

\* the process dies and a new QueueManager is constructed from the file
Crash ==
  /\ crashes < MaxCrashes
  /\ crashes' = crashes + 1
  /\ queue' = loadQueue(file)
  /\ isProcessing' = FALSE
  /\ processInterval' = FALSE
  /\ pc' = "idle"
  /\ item' = NoItem
  /\ drains' = 0
  /\ meter' = meterEnd(meter)
  /\ UNCHANGED <<file, now, nextRef, calls, fails, fate>>
  /\ UNCHANGED notQueue

\* the deliver call throws and the catch block of the loop body faults in
\* its turn, after item.attempts++: the fault leaves process() through the
\* finally block (faults are counted with the failures of the item and
\* capped at MaxRetries)
DrainFault ==
  /\ pc = "send"
  /\ fails[item.ref] < MaxRetries
  /\ queue' = Increment(queue, item)
  /\ fails' = [fails EXCEPT ![item.ref] = @ + 1]
  /\ isProcessing' = FALSE
  /\ drains' = drains - 1
  /\ meter' = meterEnd(meter)
  /\ pc' = "idle"
  /\ UNCHANGED <<file, processInterval, item, now, nextRef, calls, fate, crashes>>
  /\ UNCHANGED notQueue

\* LISAgent.stop(): the reader is disconnected (the port is closed), then
\* queueManager.stop() clears the drain timer and saves the queue
AgentStop ==
  /\ isOpen
  /\ isOpen' = FALSE
  /\ processInterval' = FALSE
  /\ file' = saveQueue(queue)
  /\ UNCHANGED <<queue, isProcessing, pc, item, now, nextRef, calls, fails,
                 fate, crashes, drains, meter>>
  /\ UNCHANGED <<engineVars, tcpVars, parserVars>>

QueueNext ==
  \/ Tick
  \/ Add
  \/ Start
  \/ Process
  \/ SendReturns
  \/ DelayDone
  \/ Stop

QueueCrashNext ==
  \/ QueueNext
  \/ Crash

\* the queue within one tick of the clock, its timer never cleared
QueueDrainNext ==
  \/ Add
  \/ Start
  \/ Process
  \/ SendReturns
  \/ DelayDone

\* the queue with faulting drains, within one tick of the clock
QueueFaultNext ==
  \/ Add
  \/ Start
  \/ Process
  \/ SendReturns
  \/ DelayDone
  \/ Stop
  \/ DrainFault

(***************************************************************************)
(* TcpReader (server version): one listening port, one protocolHandler     *)
(* created in the constructor, a 'data' listener on every accepted socket. *)
(***************************************************************************)
\* the TCP peers (instruments) that connect to the listening port
Peers == {1, 2}

\* this.socket = null
NoSocket == 0

\* the one record a peer transmits: 'A' for peer 1, 'B' for peer 2
PeerPayload(p) == <<64 + p>>

\* the chunks a peer writes, each delivered as one 'data' event: ENQ, one
\* frame numbered '1' with the checksum digits the engine accepts, EOT
Chunks(p) ==
  << <<ENQ>>,
     <<STX, 49>> \o PeerPayload(p) \o <<ETX>>
       \o Hex2(CsValue("plusCR", 49, PeerPayload(p), ETX)) \o <<CR, LF>>,
     <<EOT>> >>

\* the engine that handles the bytes of peer p: this.protocolHandler
EngineOf(p) == h

\* handleByteLevelData(data): every byte through processByte, in order
RECURSIVE handleByteLevelData(_, _)
handleByteLevelData(s, data) ==
  IF data = << >>
    THEN [st |-> s, resp |-> << >>, emit |-> << >>]
    ELSE LET o == processByte(s, Head(data))
             rest == handleByteLevelData(o.st, Tail(data))
         IN  [st |-> rest.st,
              resp |-> (IF o.resp = NULL THEN << >> ELSE <<o.resp>>) \o rest.resp,
              emit |-> o.emit \o rest.emit]

TcpInit ==
  /\ socket = NoSocket
  /\ conns = {}
  /\ ppos = [p \in Peers |-> 0]
  /\ writes = [p \in Peers |-> << >>]

\* the connection listener of net.createServer runs for a new peer
Accept ==
  \E p \in Peers \ conns :
    /\ conns' = conns \cup {p}
    /\ socket' = p
    /\ UNCHANGED <<ppos, writes>>
    /\ UNCHANGED <<engineVars, queueVars, isOpen, parserVars>>

\* the 'close' listener of the socket of peer p runs
Close ==
  \E p \in conns :
    /\ conns' = conns \ {p}
    /\ socket' = NoSocket
    /\ UNCHANGED <<ppos, writes>>
    /\ UNCHANGED <<engineVars, queueVars, isOpen, parserVars>>

\* the 'data' listener of the socket of peer p runs with p's next chunk;
\* events of a TCP run carry the peer whose chunk produced them in "at"
Data ==
  \E p \in conns :
    /\ ppos[p] < Len(Chunks(p))
    /\ LET o == handleByteLevelData(EngineOf(p), Chunks(p)[ppos[p] + 1])
       IN  /\ h' = o.st
           /\ events' = events \o Stamp(o.emit, p)
           /\ writes' = IF socket # NoSocket
                           THEN [writes EXCEPT ![socket] = @ \o o.resp]
                           ELSE writes
    /\ ppos' = [ppos EXCEPT ![p] = @ + 1]
    /\ UNCHANGED <<socket, conns>>
    /\ UNCHANGED <<sent, resps, phase, frames, cur, csq, isOpen>>
    /\ UNCHANGED <<queueVars, parserVars>>

TcpNext ==
  \/ Accept
  \/ Close
  \/ Data
  \/ Timeout

(***************************************************************************)
(* MessageParser.  Text is a sequence of characters, each a one-character *)
(* string; the control characters are written as their escapes.           *)
(***************************************************************************)
\* the characters of a string literal, in order
Chars(str) == [i \in 1..Len(str) |-> SubSeq(str, i, i)]

\* '\x02', '\x03', '\x17', '\x0B', '\x1C', '\r'
chr02 == "\\x02"
chr03 == "\\x03"
chr17 == "\\x17"
chr0B == "\\x0B"
chr1C == "\\x1C"
chr0D == "\r"

\* the characters String.prototype.trim removes (those of the model's text)
WhiteSpace == {" ", "\t", "\n", "\f", chr0D, chr0B}

\* [0-9], [0-9A-Fa-f], [HPORL]
DecDigits == {"0", "1", "2", "3", "4", "5", "6", "7", "8", "9"}
HexDigits == DecDigits \cup {"A", "B", "C", "D", "E", "F", "a", "b", "c", "d", "e", "f"}
RecordLetters == {"H", "P", "O", "R", "L"}

\* JavaScript null and undefined where a text is expected
NullText == <<"null">>
UndefinedText == <<"undefined">>

RECURSIVE trimStart(_)
trimStart(m) ==
  IF m # << >> /\ Head(m) \in WhiteSpace THEN trimStart(Tail(m)) ELSE m

RECURSIVE trimEnd(_)
trimEnd(m) ==
  IF m # << >> /\ m[Len(m)] \in WhiteSpace
    THEN trimEnd(SubSeq(m, 1, Len(m) - 1))
    ELSE m

trim(m) == trimEnd(trimStart(m))

startsWith(m, pre) == Len(pre) <= Len(m) /\ SubSeq(m, 1, Len(pre)) = pre

endsWith(m, suf) ==
  Len(suf) <= Len(m) /\ SubSeq(m, Len(m) - Len(suf) + 1, Len(m)) = suf

includes(m, c) == \E i \in 1..Len(m) : m[i] = c

\* position of the first c in m counted from 1, 0 when there is none
indexOf(m, c) ==
  IF includes(m, c)
    THEN CHOOSE i \in 1..Len(m) : m[i] = c /\ \A j \in 1..(i - 1) : m[j] # c
    ELSE 0

\* m.substring(a, b) with a and b counted from 0: the arguments are clamped
\* to 0..length and swapped when a > b
substring(m, a, b) ==
  LET clamp(x) == IF x < 0 THEN 0 ELSE IF x > Len(m) THEN Len(m) ELSE x
      lo == IF clamp(a) <= clamp(b) THEN clamp(a) ELSE clamp(b)
      hi == IF clamp(a) <= clamp(b) THEN clamp(b) ELSE clamp(a)
  IN  SubSeq(m, lo + 1, hi)

RECURSIVE split(_, _)
split(m, sep) ==
  IF ~includes(m, sep)
    THEN <<m>>
    ELSE <<SubSeq(m, 1, indexOf(m, sep) - 1)>>
           \o split(SubSeq(m, indexOf(m, sep) + 1, Len(m)), sep)

\* fields[k] || '' with k counted from 0
Field(fields, k) == IF k + 1 <= Len(fields) THEN fields[k + 1] ELSE << >>

\* the loop of calculateChecksum over the bytes of data from position i on,
\* with the checksum and the startCounting flag reached so far
RECURSIVE checksumLoop(_, _, _, _)
checksumLoop(data, i, checksum, startCounting) ==
  IF i > Len(data) THEN checksum
  ELSE IF data[i] = STX THEN checksumLoop(data, i + 1, checksum, TRUE)
  ELSE LET c == IF startCounting THEN (checksum + data[i]) % 256 ELSE checksum
       IN  checksumLoop(data, i + 1, c,
                        IF data[i] = ETX \/ data[i] = ETB
                          THEN FALSE ELSE startCounting)

\* calculateChecksum(data) over a buffer of bytes
calculateChecksum(data) == checksumLoop(data, 1, 0, FALSE)

\* message.startsWith('\x02') || /^[HPORL]\|/.test(message.trim())
isASTM(m) ==
  \/ startsWith(m, <<chr02>>)
  \/ LET t == trim(m)
     IN  Len(t) >= 2 /\ t[1] \in RecordLetters /\ t[2] = "|"

\* isHL7 with the two operators grouped the other way
isHL7_Grouped(m) ==
  /\ startsWith(trim(m), Chars("MSH")) \/ includes(m, chr0B)
  /\ includes(m, chr1C)

\* message.trim().startsWith('MSH') ||
\*   message.includes('\x0B') && message.includes('\x1C')
isHL7(m) ==
  \/ startsWith(trim(m), Chars("MSH"))
  \/ (includes(m, chr0B) /\ includes(m, chr1C))

\* message.replace(/<t>[0-9A-Fa-f]{2}\x0D/g, '<t>\x0D'): a match is
\* <t>, two hex digits, CR; matches cannot overlap, so the text that is
\* left is the text without the two digits of every match
replaceChecksum(m, t) ==
  LET Match(i) == /\ i >= 1
                  /\ i + 3 <= Len(m)
                  /\ m[i] = t
                  /\ m[i + 1] \in HexDigits
                  /\ m[i + 2] \in HexDigits
                  /\ m[i + 3] = chr0D
      kept == {k \in 1..Len(m) : ~Match(k - 1) /\ ~Match(k - 2)}
      Nth(n) == CHOOSE k \in kept : Cardinality({x \in kept : x <= k}) = n
  IN  [n \in 1..Cardinality(kept) |-> m[Nth(n)]]

\* the record type read from the first field of a line: "1H" or "H" give
\* "H"; any other first field matches no case of the switch
recordTypeOf(firstField) ==
  LET n == Len(firstField)
  IN  IF /\ n >= 2
         /\ firstField[n] \in RecordLetters
         /\ \A i \in 1..(n - 1) : firstField[i] \in DecDigits
        THEN firstField[n]
        ELSE IF n = 1 /\ firstField[1] \in RecordLetters
               THEN firstField[1]
               ELSE "unknown"

parseASTMHeader(fields) ==
  [type |-> "header",
   sendingApp |-> IF Len(fields) >= 4 THEN fields[4] ELSE UndefinedText,
   sendingFacility |-> Field(fields, 4),
   receivingApp |-> Field(fields, 5),
   timestamp |-> Field(fields, 12)]

parseASTMPatient(fields) ==
  [type |-> "patient",
   sequence |-> Field(fields, 1),
   practiceId |-> Field(fields, 2),
   labId |-> Field(fields, 3),
   patientId |-> Field(fields, 4),
   name |-> Field(fields, 5),
   dob |-> Field(fields, 7),
   sex |-> Field(fields, 8)]

parseASTMOrder(fields) ==
  [type |-> "order",
   sequence |-> Field(fields, 1),
   specimenId |-> Field(fields, 2),
   testId |-> Field(fields, 3),
   priority |-> Field(fields, 4)]

parseASTMResult(fields) ==
  [type |-> "result",
   sequence |-> Field(fields, 1),
   testId |-> Field(fields, 2),
   value |-> Field(fields, 3),
   unit |-> Field(fields, 4),
   referenceRange |-> Field(fields, 5),
   flag |-> Field(fields, 6)]

parseASTMTerminator(fields) ==
  [type |-> "terminator",
   sequence |-> Field(fields, 1),
   status |-> Field(fields, 2)]

IsOrder(r) == r.type = "order"
IsPatient(r) == r.type = "patient"
IsResult(r) == r.type = "result"

\* extractSampleId trying the patient record before the order record
extractSampleId_PatientFirst(records) ==
  LET orders == SelectSeq(records, IsOrder)
      patients == SelectSeq(records, IsPatient)
  IN  IF patients # << >> /\ patients[1].practiceId # << >>
        THEN patients[1].practiceId
        ELSE IF orders # << >> /\ orders[1].specimenId # << >>
               THEN orders[1].specimenId
               ELSE NullText

extractSampleId(records) ==
  LET orders == SelectSeq(records, IsOrder)
      patients == SelectSeq(records, IsPatient)
  IN  IF orders # << >> /\ orders[1].specimenId # << >>
        THEN orders[1].specimenId
        ELSE IF patients # << >> /\ patients[1].practiceId # << >>
               THEN patients[1].practiceId
               ELSE NullText

extractResults(records) ==
  LET results == SelectSeq(records, IsResult)
  IN  [i \in 1..Len(results) |->
         [testCode |-> results[i].testId,
          value |-> results[i].value,
          unit |-> results[i].unit,
          referenceRange |-> results[i].referenceRange,
          flag |-> results[i].flag]]

\* the loop of parseASTM over the lines: a line whose trimmed form is
\* shorter than two characters, or whose record type is unknown, adds nothing
RECURSIVE astmRecords(_)
astmRecords(lines) ==
  IF lines = << >>
    THEN << >>
    ELSE LET trimmed == trim(Head(lines))
             fields == split(trimmed, "|")
             recordType == recordTypeOf(fields[1])
             rest == astmRecords(Tail(lines))
         IN  IF Len(trimmed) < 2 THEN rest
             ELSE CASE recordType = "H" -> <<parseASTMHeader(fields)>> \o rest
                    [] recordType = "P" -> <<parseASTMPatient(fields)>> \o rest
                    [] recordType = "O" -> <<parseASTMOrder(fields)>> \o rest
                    [] recordType = "R" -> <<parseASTMResult(fields)>> \o rest
                    [] recordType = "L" -> <<parseASTMTerminator(fields)>> \o rest
                    [] OTHER -> rest

\* parseASTM(rawMessage); the checksum validation at its start only logs
parseASTM(rawMessage) ==
  LET m1 == IF startsWith(rawMessage, <<chr02>>) THEN Tail(rawMessage) ELSE rawMessage
      m2 == IF endsWith(m1, <<chr03>>) THEN SubSeq(m1, 1, Len(m1) - 1) ELSE m1
      m3 == replaceChecksum(replaceChecksum(m2, chr03), chr17)
      records == astmRecords(split(m3, chr0D))
  IN  [recordType |-> "ASTM",
       records |-> records,
       sampleId |-> extractSampleId(records),
       results |-> extractResults(records)]

IsOBR(seg) == seg.type = Chars("OBR")
IsOBX(seg) == seg.type = Chars("OBX")
NotBlank(line) == trim(line) # << >>

\* parseHL7(rawMessage)
parseHL7(rawMessage) ==
  LET message ==
        IF includes(rawMessage, chr0B) /\ includes(rawMessage, chr1C)
          THEN substring(rawMessage, indexOf(rawMessage, chr0B),
                         indexOf(rawMessage, chr1C) - 1)
          ELSE rawMessage
      lines == SelectSeq(split(message, chr0D), NotBlank)
      segments == [i \in 1..Len(lines) |->
                     [type |-> split(lines[i], "|")[1],
                      fields |-> split(lines[i], "|")]]
      obr == SelectSeq(segments, IsOBR)
      obx == SelectSeq(segments, IsOBX)
  IN  [recordType |-> "HL7",
       segments |-> segments,
       sampleId |-> IF obr # << >> /\ Len(obr[1].fields) > 3
                      THEN obr[1].fields[4]
                      ELSE UndefinedText,
       results |-> [i \in 1..Len(obx) |->
                      [testCode |-> Field(obx[i].fields, 3),
                       value |-> Field(obx[i].fields, 5),
                       unit |-> Field(obx[i].fields, 6),
                       flag |-> Field(obx[i].fields, 8)]]]

\* parse returns null
NoDocument == [recordType |-> "null"]

\* parse has not been called
NotParsed == [recordType |-> "none"]

\* parse(rawMessage)
parse(rawMessage) ==
  IF isASTM(rawMessage) THEN parseASTM(rawMessage)
  ELSE IF isHL7(rawMessage) THEN parseHL7(rawMessage)
  ELSE NoDocument

\* the lines messages are made of: ASTM records, HL7 segments, other text
Lines ==
  { Chars("H|\\^&"),
    Chars("P|1|PR7|12345"),
    Chars("O|1|SAMP001|ESR||R"),
    Chars("1O|1||ESR"),
    Chars("R|1|^^^ESR|15|mm/hr|0-15|N"),
    Chars("L|1|F"),
    Chars("MSH|^~\\&|INSTRUMENT"),
    Chars("PID|1||12345"),
    Chars("OBR|1|||SAMP001|ESR|R"),
    Chars("OBX|1|NM|ESR|15"),
    Chars("X|1"),
    Chars(" ") }

\* lines of a generated message
MaxLines == 2

\* what may stand before and after the lines of a message
Prefixes == {<< >>, <<chr02>>, <<chr0B>>, <<" ">>}
Suffixes == {<< >>, <<chr03>>, <<chr1C>>, <<chr1C, chr0D>>}

RECURSIVE Join(_)
Join(lines) ==
  IF lines = << >> THEN << >>
  ELSE IF Len(lines) = 1 THEN lines[1]
  ELSE lines[1] \o <<chr0D>> \o Join(Tail(lines))

\* the ASTM and HL7 messages of the configuration guide, CR-joined
AstmExample ==
  Join(<< Chars("H|\\^&||||||||"),
          Chars("P|1||12345|SMITH^JOHN||19800515|M||"),
          Chars("O|1|SAMP001|ESR||R"),
          Chars("R|1||^WESTERGREN|15|mm/hr|0-15|N"),
          Chars("L|1|F") >>)

Hl7Example ==
  Join(<< Chars("MSH|^~\\&|INSTRUMENT|LAB|LIS|BACKEND|20240101120000||ORU^R01|12345|P|2.3"),
          Chars("PID|1||12345||SMITH^JOHN||19800515|M"),
          Chars("OBR|1|||SAMP001|ESR|R"),
          Chars("OBX|1|NM|ESR^WESTERGREN|15|mm/hr|0-15|N|||F") >>)

Inputs ==
  {AstmExample, Hl7Example}
    \cup { pre \o Join(ls) \o suf :
             pre \in Prefixes, suf \in Suffixes,
             ls \in UNION { [1..n -> Lines] : n \in 0..MaxLines } }

ParserIdle ==
  /\ raw = << >>
  /\ parsed = NotParsed

\* a message arrives at the parser
ParserInit ==
  /\ raw \in Inputs
  /\ parsed = NotParsed

\* LISAgent.handleData calls parser.parse(raw)
Parse ==
  /\ parsed = NotParsed
  /\ parsed' = parse(raw)
  /\ UNCHANGED raw
  /\ UNCHANGED <<engineVars, queueVars, isOpen, tcpVars>>

ParserNext == Parse

Init == EngineInit /\ QueueInit /\ TcpInit /\ ParserIdle

InitParser == EngineInit /\ QueueInit /\ TcpInit /\ ParserInit

SpecEngine == Init /\ [][EngineNext]_vars

\* the instrument may garble a checksum digit
EngineNoiseNext ==
  \/ EngineNext
  \/ SendBadCs

\* the agent may be stopped while the instrument transmits
EngineStopNext ==
  \/ EngineNext
  \/ AgentStop

SpecEngineNoise == Init /\ [][EngineNoiseNext]_vars

SpecEngineStop == Init /\ [][EngineStopNext]_vars

\* the engine fed by a line that follows no protocol
SpecBytes == Init /\ [][BytesNext]_vars

SpecQueue == Init /\ [][QueueNext]_vars

SpecQueueCrash == Init /\ [][QueueCrashNext]_vars

SpecQueueFault == Init /\ [][QueueFaultNext]_vars

SpecTcp == Init /\ [][TcpNext]_vars

\* the queue with its drains metered; every awaited deliver call returns
\* and every delay timer fires
InitDrain ==
  /\ EngineInit
  /\ queue = << >>
  /\ file = << >>
  /\ isProcessing = FALSE
  /\ processInterval = FALSE
  /\ pc = "idle"
  /\ item = NoItem
  /\ now = 0
  /\ nextRef = 1
  /\ calls = [x \in Refs |-> 0]
  /\ fails = [x \in Refs |-> 0]
  /\ fate = [x \in Refs |-> "none"]
  /\ crashes = 0
  /\ drains = 0
  /\ meter = NoMeter
  /\ TcpInit
  /\ ParserIdle

SpecDrain ==
  /\ InitDrain
  /\ [][QueueDrainNext]_vars
  /\ WF_vars(SendReturns)
  /\ WF_vars(DelayDone)

SpecParser == InitParser /\ [][ParserNext]_vars

----------------------------------------------------------------------------
(***************************************************************************)
(* Properties of the protocol engine.                                      *)
(***************************************************************************)

\* the bytes of a one-frame transmission
SingleFrame(d, p, t, cs) == <<ENQ, STX, d>> \o p \o <<t>> \o cs \o <<CR, LF, EOT>>

\* the completed-message events so far
IsMessage(e) == e.type = "message"
Messages == SelectSeq(events, IsMessage)

NoTimeout == \A i \in 1..Len(events) : events[i].type # "timeout"

NoNak == \A i \in 1..Len(resps) : resps[i] # NAK

RECURSIVE ConcatPayloads(_)
ConcatPayloads(fs) ==
  IF fs = << >> THEN << >> ELSE fs[1].payload \o ConcatPayloads(Tail(fs))

\* C1: after ENQ, STX, '1', payload, ETX, the two hex digits of the
\* streaming-mode checksum, CR, LF, EOT the engine has emitted exactly one
\* completed message, equal to the payload, has answered ACK to ENQ, to LF
\* and to EOT, and has answered NAK to no byte.
C1_SingleFrameHappyPath ==
  \A p \in Payloads :
    (sent = SingleFrame(49, p, ETX, Hex2(Streaming(p, ETX))) /\ NoTimeout)
      => /\ Len(Messages) = 1
         /\ Messages[1].text = p
         /\ resps[1] = ACK
         /\ resps[Len(sent) - 1] = ACK
         /\ resps[Len(sent)] = ACK
         /\ NoNak

\* C2: after ENQ, STX, '1', payload, ETX, two hex digits of any value other
\* than the streaming-mode checksum, CR, LF, EOT the engine has answered NAK
\* to the LF and has emitted no completed message.
C2_BadChecksumRejected ==
  \A p \in Payloads, v \in 0..255 :
    (v # Streaming(p, ETX) /\ sent = SingleFrame(49, p, ETX, Hex2(v)) /\ NoTimeout)
      => /\ resps[Len(sent) - 1] = NAK
         /\ Len(Messages) = 0

\* C3: after a transmission ENQ, frames, EOT in which every frame was
\* acknowledged (ACK to each LF) the completed message is the concatenation
\* of the frames' payloads: no frame-number digit, no checksum digit.
C3_MultiFrameReassembly ==
  (/\ phase = "eot"
   /\ NoTimeout
   /\ \A i \in 1..Len(sent) : sent[i] = LF => resps[i] = ACK)
    => /\ Len(Messages) = 1
       /\ Messages[1].text = ConcatPayloads(frames)

\* C4: while a transmission is in progress the inactivity alarm is armed
\* after every byte, so that silence after any byte leads to a timeout.
C4_AlarmArmedWhileReceiving == h.isReceivingMessage => h.timeoutTimer

\* C5: a frame numbered '3' where 1 is expected, with the checksum digits of
\* the streaming-mode checksum, draws no NAK and the transmission ends with
\* one completed message carrying the payload.
C5_LenientFrameNumber ==
  \A p \in Payloads :
    (sent = SingleFrame(51, p, ETX, Hex2(Streaming(p, ETX))) /\ NoTimeout)
      => /\ NoNak
         /\ Len(Messages) = 1
         /\ Messages[1].text = p

----------------------------------------------------------------------------
(***************************************************************************)
(* Properties of the delivery queue.                                       *)
(***************************************************************************)

RefsOf(q) == [i \in 1..Len(q) |-> q[i].ref]

\* C6: the queue never holds more than MaxSize items; an add() on a full
\* queue drops exactly the front item and appends the new one at the back,
\* an add() on any other queue only appends; MaxSize + 1 adds to the empty
\* queue leave items 2..MaxSize + 1 in order.
C6_QueueCapacity ==
  /\ [](Len(queue) <= MaxSize)
  /\ []((nextRef = MaxSize + 2 /\ \A r \in Refs : calls[r] = 0)
          => RefsOf(queue) = [i \in 1..MaxSize |-> i + 1])
  /\ [][nextRef' # nextRef =>
          /\ Len(queue') >= 1
          /\ queue'[Len(queue')].ref = nextRef
          /\ queue'[Len(queue')].attempts = 0
          /\ IF Len(queue) >= MaxSize
               THEN /\ Len(queue') = Len(queue)
                    /\ \A i \in 1..(Len(queue) - 1) : queue'[i] = queue[i + 1]
               ELSE /\ Len(queue') = Len(queue) + 1
                    /\ \A i \in 1..Len(queue) : queue'[i] = queue[i]]_vars

\* an add() on a full queue has dropped item 1 and left items 2..MaxSize + 1
C6_Witness ==
  /\ nextRef = MaxSize + 2
  /\ fate[1] = "dropped"
  /\ RefsOf(queue) = [i \in 1..MaxSize |-> i + 1]

\* C7: no item is passed to the deliver function more than MaxRetries times;
\* an item whose MaxRetries deliver calls all failed is out of the queue,
\* dead-lettered, and an item is dead-lettered only after exactly MaxRetries
\* failed deliver calls.
C7_BoundedRetry ==
  \A r \in Refs :
    /\ calls[r] <= MaxRetries
    /\ fails[r] = MaxRetries => (r \notin QueueRefs(queue) /\ fate[r] = "dead")
    /\ fate[r] = "dead" => (fails[r] = MaxRetries /\ calls[r] = MaxRetries)

\* an item has been dead-lettered after MaxRetries failed deliver calls
C7_Witness ==
  \E r \in Refs : fate[r] = "dead" /\ calls[r] = MaxRetries /\ fails[r] = MaxRetries

\* C8: when the process dies during a drain and the queue is rebuilt from
\* the file, no delivered item is back in the queue and no item that was
\* still queued is missing.
C8_CrashRecovery ==
  [][(crashes' # crashes /\ isProcessing) =>
       /\ \A x \in QueueRefs(queue') : fate[x] # "delivered"
       /\ \A x \in QueueRefs(queue) : x \in QueueRefs(queue')]_vars

\* C9: the persisted file holds the in-memory queue after every operation
\* that changes the queue.
C9_PersistedOnEveryMutation == file = queue

\* C10: an item leaves the queue only because a deliver call with its
\* payload succeeded, because it was dead-lettered, or because add() dropped
\* it as the oldest entry of a full queue.
C10_DispositionWays ==
  \A r \in Refs : fate[r] \in {"none", "queued", "delivered", "dead", "dropped"}

\* C11: at most one drain loop is in flight; the guard flag is set exactly
\* while a drain is in flight, so it is false again after every exit of a
\* drain, by the end of the loop or by a fault; while a drain is running a
\* process() call invokes no deliver function and changes no item: deliver
\* is invoked only by the running loop after its delay, and the list changes
\* only by add() or by the loop handling a deliver result.
C11_AtMostOneDrain ==
  /\ [](drains <= 1)
  /\ [](isProcessing <=> drains = 1)
  /\ [](isProcessing <=> pc # "idle")
  /\ [][isProcessing => (calls' # calls => (pc = "delay" /\ pc' = "send"))]_vars
  /\ [][isProcessing => (queue' # queue => (nextRef' # nextRef \/ pc = "send"))]_vars

\* a drain is awaiting a deliver call while the timer is set (a tick calls
\* process() and returns at once), after an earlier drain left by a fault
C11_Witness ==
  /\ isProcessing
  /\ processInterval
  /\ pc = "send"
  /\ drains = 1
  /\ \E r \in Refs : fails[r] > 0 /\ r \in QueueRefs(queue) /\ calls[r] > fails[r]

\* C12: every accepted TCP peer has its own engine state, so when two peers
\* have each sent a complete one-frame transmission, in any interleaving of
\* their chunks, exactly two messages have been completed and each peer's
\* record is one of them.
C12_PerConnectionIsolation ==
  ((\A p \in Peers : ppos[p] = Len(Chunks(p))) /\ NoTimeout)
    => /\ Len(Messages) = 2
       /\ \A p \in Peers : \E i \in 1..Len(Messages) : Messages[i].text = PeerPayload(p)

\* C13: parsing the ASTM example of the configuration guide yields a
\* document with sampleId 'SAMP001' and exactly one result, whose value is
\* '15', unit 'mm/hr', referenceRange '0-15' and flag 'N'.
C13_AstmExample ==
  (raw = AstmExample /\ parsed # NotParsed)
    => /\ parsed.recordType = "ASTM"
       /\ parsed.sampleId = Chars("SAMP001")
       /\ Len(parsed.results) = 1
       /\ parsed.results[1].value = Chars("15")
       /\ parsed.results[1].unit = Chars("mm/hr")
       /\ parsed.results[1].referenceRange = Chars("0-15")
       /\ parsed.results[1].flag = Chars("N")

\* C14: parsing the HL7 example of the configuration guide yields a
\* document with sampleId 'SAMP001' and exactly one result entry.
C14_Hl7Example ==
  (raw = Hl7Example /\ parsed # NotParsed)
    => /\ parsed.recordType = "HL7"
       /\ parsed.sampleId = Chars("SAMP001")
       /\ Len(parsed.results) = 1

\* a document without an Order or without a Result record (ASTM), without
\* an OBR or without an OBX segment (HL7)
MissingStructure(doc) ==
  \/ /\ doc.recordType = "ASTM"
     /\ SelectSeq(doc.records, IsOrder) = << >> \/ SelectSeq(doc.records, IsResult) = << >>
  \/ /\ doc.recordType = "HL7"
     /\ SelectSeq(doc.segments, IsOBR) = << >> \/ SelectSeq(doc.segments, IsOBX) = << >>

\* C16: the parser yields no document for a message that is classified
\* ASTM or HL7 and lacks a mandatory piece: every document parse returns
\* has an Order and a Result record, or an OBR and an OBX segment.
C16_MissingStructure == ~MissingStructure(parsed)

\* the two tests in the words of the claim
C17_IsAstm(m) ==
  \/ m # << >> /\ m[1] = chr02
  \/ \E letter \in {"H", "P", "O", "R", "L"} : startsWith(trim(m), <<letter, "|">>)

C17_IsHl7(m) ==
  \/ startsWith(trim(m), <<"M", "S", "H">>)
  \/ \E i, j \in 1..Len(m) : m[i] = chr0B /\ m[j] = chr1C

\* C17: parse(m) returns no result exactly when m is neither ASTM nor HL7;
\* a message that is ASTM is parsed as ASTM even when it is HL7 as well, and
\* a message that is HL7 only is parsed as HL7.
C17_Classification ==
  parsed # NotParsed
    => /\ parsed = NoDocument <=> (~C17_IsAstm(raw) /\ ~C17_IsHl7(raw))
       /\ C17_IsAstm(raw) => parsed.recordType = "ASTM"
       /\ (~C17_IsAstm(raw) /\ C17_IsHl7(raw)) => parsed.recordType = "HL7"

\* a message that passes both tests has been parsed, as ASTM
C17_Witness ==
  /\ C17_IsAstm(raw)
  /\ C17_IsHl7(raw)
  /\ parsed.recordType = "ASTM"

\* C15: when a character that is no hex digit arrives where a checksum
\* digit is expected, the frame is answered NAK: the response to the LF
\* that ends the frame is NAK, not ACK, and the engine is reset by it.
C15_MalformedChecksumDigits ==
  \A i \in 1..Len(sent) : \A j \in (i + 1)..Len(sent) :
    (/\ sent[i] = NonHex
     /\ sent[j] = LF
     /\ \A k \in (i + 1)..(j - 1) : sent[k] # LF
     /\ NoTimeout)
      => resps[j] = NAK

\* C18: a stop() step clears the drain timer, leaves the queue as it is and
\* leaves the file equal to it, without touching a drain in flight; while
\* the timer is cleared no process() call starts a drain.
C18_QueueShutdown ==
  /\ [][(processInterval /\ ~processInterval')
          => (/\ queue' = queue
              /\ file' = queue
              /\ isProcessing' = isProcessing
              /\ pc' = pc)]_vars
  /\ [][~processInterval => (isProcessing' => isProcessing)]_vars
  /\ [][~processInterval => (calls' # calls => isProcessing)]_vars

\* stop() has returned while a drain was awaiting a deliver call: the
\* timer is cleared, the drain goes on, the file holds the queue
C18_Witness ==
  /\ ~processInterval
  /\ isProcessing
  /\ pc = "send"
  /\ queue # << >>
  /\ file = queue

\* C19: once the agent is stopped the inactivity alarm is disarmed and no
\* event (timeout, message) is emitted any more.
C19_AlarmCancelledOnShutdown ==
  /\ [](~isOpen => ~h.timeoutTimer)
  /\ [][~isOpen => events' = events]_vars

\* C20: the step in which a deliver call returns success removes from the
\* queue exactly the item whose payload was passed to that call.
C20_SuccessRemovesDelivered ==
  [][(pc = "send" /\ pc' = "delay" /\ fails' = fails)
       => QueueRefs(queue') = QueueRefs(queue) \ {item.ref}]_vars

\* the position of item r in the list q (0 when it is not there)
PosOf(q, r) == IF \E i \in 1..Len(q) : q[i].ref = r
                 THEN CHOOSE i \in 1..Len(q) : q[i].ref = r
                 ELSE 0

\* a deliver call for `item` comes back failed and leaves the attempt
\* counter of the item below the ceiling
RequeueStep ==
  /\ pc = "send"
  /\ pc' = "delay"
  /\ fails' # fails
  /\ ~exceeded(item.attempts + 1)

C22_EndOfDrainPersistence ==
  [][(isProcessing /\ ~isProcessing') => file' = queue']_vars

\* every deliver call so far succeeded and no add() found the queue full
AllDeliveredNoOverflow ==
  \A r \in Refs : fails[r] = 0 /\ fate[r] \notin {"dropped", "shifted", "dead"}

\* C23: while every deliver call succeeds and no add() overflows, the items
\* passed to the deliver function so far are the first ones added, each
\* passed exactly once, the one being delivered is the latest of them, and
\* the queue holds the others in the order they were added; a drain that
\* has ended has delivered every item added.
C23_FifoDelivery ==
  AllDeliveredNoOverflow =>
    /\ \A r \in Refs : calls[r] <= 1
    /\ \A r, r2 \in Refs : (calls[r] = 1 /\ r2 < r) => calls[r2] = 1
    /\ \A r \in Refs : (calls[r] = 1 /\ ~(pc = "send" /\ item.ref = r))
                          => fate[r] = "delivered"
    /\ \A i \in 1..(Len(queue) - 1) : queue[i].ref < queue[i + 1].ref
    /\ pc = "send" => (item.data = item.ref /\ \A r \in Refs :
                         calls[r] = 1 => r <= item.ref)
    /\ (pc = "idle" /\ queue = << >>) =>
          \A r \in Refs : r < nextRef => calls[r] = 1

\* MaxAdds items, more than the queue can hold at once, were added without
\* an overflow and all were delivered, each by one deliver call
C23_Witness ==
  /\ AllDeliveredNoOverflow
  /\ nextRef = MaxAdds + 1
  /\ pc = "idle"
  /\ queue = << >>
  /\ \A r \in Refs : calls[r] = 1 /\ fate[r] = "delivered"

\* C24 as stated: the deliver calls of a drain never exceed the sum over
\* the items queued at its start of MaxRetries minus attempts, plus one per
\* item added while it runs.
C24_OriginalBound == meter.spent <= meter.owed + meter.added

\* C24: the deliver calls of a drain never exceed the sum over the items
\* queued at its start of MaxRetries minus attempts, plus MaxRetries per
\* item added while it runs; a process() call that ran a drain returns only
\* with an empty queue; with deliver calls that return and finitely many
\* add() calls every drain in flight ends.
C24_DrainTermination ==
  /\ [](meter.spent <= meter.owed + MaxRetries * meter.added)
  /\ [][(isProcessing /\ ~isProcessing') => queue' = << >>]_vars
  /\ (isProcessing ~> ~isProcessing)

\* a drain is about to end on an empty queue after as many deliver calls
\* as its allowance, an item added meanwhile having used MaxRetries of them
C24_Witness ==
  /\ pc = "delay"
  /\ queue = << >>
  /\ meter.added >= 1
  /\ meter.spent = meter.owed + MaxRetries * meter.added
  /\ meter.spent > meter.owed + meter.added

\* the byte processed last, NULL when the alarm has fired since or no byte
\* has arrived
LastByte ==
  IF sent # << >> /\ \A i \in 1..Len(events) :
                       ~(events[i].type = "timeout" /\ events[i].at = Len(sent))
    THEN sent[Len(sent)]
    ELSE NULL

\* C25: whatever the engine was doing, once it has processed ENQ the text
\* buffer is empty, the running checksum is 0, the received-checksum
\* accumulator is empty, no checksum digits are awaited, the expected frame
\* number is 1, the engine is receiving, the alarm is armed, and the
\* response to the ENQ is ACK.
C25_EnqFromAnyState ==
  LastByte = ENQ =>
    /\ h.messageBuffer = << >>
    /\ h.checksum = 0
    /\ h.receivedChecksum = << >>
    /\ h.expectingChecksum = FALSE
    /\ h.currentFrameNumber = NULL
    /\ h.nextExpectedFrameNumber = 1
    /\ h.isReceivingMessage
    /\ h.timeoutTimer
    /\ resps[Len(sent)] = ACK

\* ENQ was processed while the engine held text, a running checksum and one
\* checksum digit of a frame
C25_Witness ==
  /\ sent = <<STX, CR, ETX, 48, ENQ>>
  /\ LastByte = ENQ
  /\ h.isReceivingMessage


\* two checksum digits were collected after ETX/ETB and they differ from
\* the running checksum
FailingChecksumPending ==
  /\ h.expectingChecksum
  /\ Len(h.receivedChecksum) = 2
  /\ h.receivedChecksum # Hex2(h.checksum)

\* C26: the step that processes EOT while no failing checksum is pending
\* emits exactly one completed-message event, carrying the text buffered
\* before the step, responds ACK, and leaves every field of the engine as
\* in a freshly constructed engine.
C26_EotFinalisation ==
  [][(sent' = Append(sent, EOT) /\ ~FailingChecksumPending)
       => /\ events' = Append(events,
                              [type |-> "message",
                               text |-> BufferToString(h.messageBuffer),
                               at |-> Len(sent) + 1])
          /\ resps' = Append(resps, ACK)
          /\ h' = NewHandler]_vars

\* EOT has arrived after frame number '0', text '0', ETX and the checksum
\* digits "33", which validate at the EOT: the text was emitted, the
\* response is ACK, the engine is as new
C26_Witness ==
  /\ sent = <<48, 48, ETX, 51, 51, EOT>>
  /\ events = <<[type |-> "message", text |-> BufferToString(<<48>>), at |-> 6]>>
  /\ resps[6] = ACK
  /\ h = NewHandler

\* C29: the step that processes a CR adds 13 to the running checksum, mod
\* 256, whatever the engine is doing; it appends the CR to the text buffer
\* if and only if no checksum digits were awaited when it arrived; it
\* produces no response byte and no event.
C29_CrHandling ==
  [][sent' = Append(sent, CR)
       => /\ h'.checksum = (h.checksum + CR) % 256
          /\ h'.messageBuffer = IF h.expectingChecksum
                                  THEN h.messageBuffer
                                  ELSE Append(h.messageBuffer, CR)
          /\ resps' = Append(resps, NULL)
          /\ events' = events]_vars

\* a CR arrived as data and a second one after ETX and two checksum digits:
\* both are in the checksum (13 + 3 + 13), only the first is in the text
C29_Witness ==
  /\ sent = <<CR, ETX, 48, 51, CR>>
  /\ h.expectingChecksum
  /\ h.checksum = 29
  /\ h.messageBuffer = <<CR>>
  /\ \A i \in 1..5 : resps[i] = NULL

\* the text of event e as an engine constructed after byte i, fed the
\* bytes that arrived after byte i up to the event, would carry it
TextAfter(i, e) ==
  LET o == handleByteLevelData(NewHandler, SubSeq(sent, i + 1, e.at))
  IN  IF e.type = "message"
        THEN IF o.emit = << >> THEN <<NULL>> ELSE o.emit[Len(o.emit)].text
        ELSE BufferToString(o.st.messageBuffer)

\* C30: after a byte answered with NAK the engine is in its initial state,
\* field by field, and every event emitted after a NAK carries the text a
\* new engine would have built from the bytes that arrived after the NAK:
\* nothing buffered before the NAK is in it.
C30_NakImpliesReset ==
  /\ (sent # << >> /\ resps[Len(sent)] = NAK) => h = NewHandler
  /\ \A k \in 1..Len(events), i \in 1..Len(sent) :
       (resps[i] = NAK /\ i < events[k].at)
         => events[k].text = TextAfter(i, events[k])

\* a frame with text CR and the wrong checksum digits "00" was answered
\* with NAK at its LF; the EOT that follows emits a message with no text
C30_Witness ==
  /\ sent = <<CR, ETX, 48, 48, LF, EOT>>
  /\ resps[5] = NAK
  /\ events = <<[type |-> "message", text |-> BufferToString(<< >>), at |-> 6]>>

\* C27: in every frame of a transmission, once its ETX or ETB has been
\* processed the running checksum is the sum, mod 256, of the frame's
\* payload bytes and the terminator: the STX and the frame-number digit
\* are not in it.
C27_StreamingChecksumWindow ==
  (phase = "cs" /\ Len(csq) = 2)
    => h.checksum = Streaming(cur.payload, frames[Len(frames)].term)

\* C28: the step that processes an LF validating the checksum of a frame
\* raises the expected frame number by one, 7 wrapping to 0, when the frame
\* ended with ETB and leaves it as it is when the frame ended with ETX; the
\* expected frame number is always in 0..7.
C28_ExpectedFrameNumber ==
  /\ [](h.nextExpectedFrameNumber \in 0..7)
  /\ [][(/\ sent' = Append(sent, LF)
         /\ h.expectingChecksum
         /\ Len(h.receivedChecksum) = 2
         /\ validateChecksum(h)
         /\ frames # << >>)
          => h'.nextExpectedFrameNumber =
               IF frames[Len(frames)].term = ETB
                 THEN (h.nextExpectedFrameNumber + 1) % 8
                 ELSE h.nextExpectedFrameNumber]_vars

\* the position of the last ENQ received, 0 when there is none
LastEnq ==
  IF \E i \in 1..Len(sent) : sent[i] = ENQ
    THEN CHOOSE i \in 1..Len(sent) :
           sent[i] = ENQ /\ \A j \in (i + 1)..Len(sent) : sent[j] # ENQ
    ELSE 0

\* the text an engine builds from the last ENQ and the bytes after it
TextSinceEnq ==
  BufferToString(
    handleByteLevelData(NewHandler,
                        SubSeq(sent, LastEnq, Len(sent))).st.messageBuffer)

C32_MessagesOnlyBetweenEnqAndEot ==
  /\ [](~h.isReceivingMessage => h.messageBuffer = << >>)
  /\ [][(sent' = Append(sent, EOT) /\ ~h.isReceivingMessage)
          => events' = events]_vars
  /\ [][Len(events') > Len(events) /\ events'[Len(events')].type = "message"
          => h.isReceivingMessage]_vars

\* the bytes of the frame whose terminator was sent last: STX, the
\* frame-number digit, the payload, ETX or ETB
LastFrameBytes ==
  <<STX, cur.num>> \o cur.payload \o <<frames[Len(frames)].term>>

\* C33: for every frame STX, digit d, payload, ETX/ETB of a transmission
\* the buffer-validation checksum is the sum, mod 256, of d, the payload
\* and the terminator, and it exceeds the running checksum the engine holds
\* after the terminator by d, mod 256.
C33_TwoChecksumPolicies ==
  (phase = "cs" /\ Len(csq) = 2)
    => /\ calculateChecksum(LastFrameBytes)
            = (cur.num + SumBytes(cur.payload) + frames[Len(frames)].term) % 256
       /\ calculateChecksum(LastFrameBytes) = (h.checksum + cur.num) % 256

\* the positions of the records of type t in the parsed document, and the
\* first of them (0 when there is none)
RecordsOfType(t) == {i \in 1..Len(parsed.records) : parsed.records[i].type = t}
FirstOfType(t) ==
  IF RecordsOfType(t) = {} THEN 0
  ELSE CHOOSE i \in RecordsOfType(t) : \A j \in RecordsOfType(t) : i <= j

\* C34 as stated: when the message has an Order record with a non-empty
\* specimen id, the sampleId of the document is the specimen id of such a
\* record.
C34_AnyOrderRecord ==
  (parsed.recordType = "ASTM"
   /\ \E i \in RecordsOfType("order") : parsed.records[i].specimenId # << >>)
    => \E i \in RecordsOfType("order") :
         /\ parsed.records[i].specimenId # << >>
         /\ parsed.sampleId = parsed.records[i].specimenId

\* C34: the sampleId of an ASTM document is the specimen id of the first
\* Order record when that is not empty, otherwise the practice id of the
\* first Patient record when that is not empty, otherwise null; the results
\* list has one entry per Result record, in message order, carrying the
\* record's test id, value, unit, reference range and flag.
C34_SampleIdDerivation ==
  parsed.recordType = "ASTM" =>
    LET o == FirstOfType("order")
        p == FirstOfType("patient")
        rs == RecordsOfType("result")
    IN  /\ parsed.sampleId =
             IF o # 0 /\ parsed.records[o].specimenId # << >>
               THEN parsed.records[o].specimenId
               ELSE IF p # 0 /\ parsed.records[p].practiceId # << >>
                      THEN parsed.records[p].practiceId
                      ELSE NullText
        /\ Len(parsed.results) = Cardinality(rs)
        /\ \A i \in rs :
             LET k == Cardinality({j \in rs : j <= i})
             IN  /\ parsed.results[k].testCode = parsed.records[i].testId
                 /\ parsed.results[k].value = parsed.records[i].value
                 /\ parsed.results[k].unit = parsed.records[i].unit
                 /\ parsed.results[k].referenceRange
                      = parsed.records[i].referenceRange
                 /\ parsed.results[k].flag = parsed.records[i].flag

\* a message with an Order record without specimen id and a Patient record
\* was parsed: the sampleId is the practice id of the patient
C34_Witness ==
  /\ parsed.recordType = "ASTM"
  /\ FirstOfType("order") # 0
  /\ parsed.records[FirstOfType("order")].specimenId = << >>
  /\ FirstOfType("patient") # 0
  /\ parsed.sampleId = Chars("PR7")

\* C35: an add() gives the new item the attempt counter 0 and an id that no
\* other item of the queue has, so no two items of the queue ever share an
\* id, even when two add() calls happen with no clock advance between them.
C35_UniqueItemIds ==
  /\ [](\A i, j \in 1..Len(queue) : i # j => queue[i].id # queue[j].id)
  /\ [][nextRef' # nextRef
          => /\ queue'[Len(queue')].attempts = 0
             /\ \A i \in 1..(Len(queue') - 1) :
                  queue'[i].id # queue'[Len(queue')].id]_vars

\* byte k is the ETX or ETB of the frame the line is in: no byte that
\* starts or ends a frame or a transmission has arrived since
EndsCurrentFrame(k) ==
  /\ sent[k] \in {ETX, ETB}
  /\ \A j \in (k + 1)..Len(sent) : sent[j] \notin {ENQ, STX, ETX, ETB, LF, EOT}

\* C36: the step that answers ACK to an LF following the ETX or ETB of the
\* current frame finds exactly two checksum digits received for the frame,
\* equal to the two hex digits of the running checksum.
C36_AcknowledgedFramesValidated ==
  [][(/\ sent' = Append(sent, LF)
      /\ resps' = Append(resps, ACK)
      /\ \E k \in 1..Len(sent) : EndsCurrentFrame(k))
       => /\ Len(h.receivedChecksum) = 2
          /\ h.receivedChecksum = Hex2(h.checksum)]_vars

\* bytes the line never delivers, tried in every state it reaches: ETB and
\* a letter
OtherBytes == {ETB, NonHex}

\* C37: every byte processed so far has one recorded response, which is
\* none, ACK or NAK, and only ENQ, LF and EOT have drawn a response; the
\* same holds for an ETB or a letter arriving in any state reached: STX,
\* ETX, ETB, CR and data bytes draw no response.
C37_ResponseDiscipline ==
  /\ Len(resps) = Len(sent)
  /\ \A i \in 1..Len(sent) :
       /\ resps[i] \in {NULL, ACK, NAK}
       /\ resps[i] # NULL => sent[i] \in {ENQ, LF, EOT}
  /\ \A b \in OtherBytes :
       /\ processByte(h, b).resp \in {NULL, ACK, NAK}
       /\ processByte(h, b).resp # NULL => b \in {ENQ, LF, EOT}

\* ENQ, STX, ETX, CR, a digit and LF were processed: ACK to the ENQ and to
\* the LF, no response to the four bytes between them
C37_Witness ==
  /\ sent = <<ENQ, STX, ETX, CR, 48, LF>>
  /\ resps = <<ACK, NULL, NULL, NULL, NULL, ACK>>

\* C38: response routing.  Every ACK/NAK produced while the chunk of a peer
\* is processed is written to that peer's own connection, which is open
\* whenever its 'data' listener runs; another peer connecting or
\* disconnecting neither redirects nor suppresses those responses.
C38_ResponseRouting ==
  [][\A p \in Peers :
       ppos'[p] = ppos[p] + 1 =>
         /\ p \in conns
         /\ writes' = [writes EXCEPT ![p] =
                         @ \o handleByteLevelData(EngineOf(p),
                                                  Chunks(p)[ppos[p] + 1]).resp]]_vars

\* C39: attempt counter bound.  Every item in the queue, and the item a
\* deliver call is in flight for, has an attempt counter from 0 to
\* MaxRetries - 1 that equals the number of failed deliver calls made for
\* it; in every step the counter of an item that stays in the queue does
\* not decrease, and it goes up, by exactly one, exactly in the step in
\* which a deliver call for that item fails.
C39_AttemptCounterBound ==
  /\ [](/\ \A i \in 1..Len(queue) :
             /\ queue[i].attempts \in 0..(MaxRetries - 1)
             /\ queue[i].attempts = fails[queue[i].ref]
        /\ pc = "send" =>
             /\ item.attempts \in 0..(MaxRetries - 1)
             /\ item.attempts = fails[item.ref])
  /\ [][\A i \in 1..Len(queue) : \A j \in 1..Len(queue') :
          queue[i].ref = queue'[j].ref =>
            /\ queue'[j].attempts >= queue[i].attempts
            /\ queue'[j].attempts =
                 IF pc = "send" /\ pc' = "delay" /\ item.ref = queue[i].ref
                    /\ fails'[item.ref] = fails[item.ref] + 1
                   THEN queue[i].attempts + 1
                   ELSE queue[i].attempts]_vars

\* an item is back in the queue with its counter at MaxRetries - 1 after
\* that many failed deliver calls, behind an item not yet attempted
C39_Witness ==
  /\ pc = "delay"
  /\ Len(queue) = 2
  /\ queue[1].attempts = 0
  /\ queue[2].attempts = MaxRetries - 1
  /\ fails[queue[2].ref] = MaxRetries - 1
  /\ calls[queue[2].ref] = MaxRetries - 1

====
